---- MODULE Spec2Model ----
(***************************************************************************)
(* The authenticated request pipeline of asa-cli: the token provider       *)
(* (internal/auth/auth.go), the authenticating transport                   *)
(* (internal/auth/transport.go) and the client construction with the       *)
(* organization auto-resolution (cmd/root.go), under the specification     *)
(* Spec; the filter parser (cmd/root.go parseFilters) under FilterSpec;    *)
(* and the auto-paginator behind services/campaigns.go FindAll under       *)
(* PagerSpec.                                                              *)
(*                                                                         *)
(* Time is counted in seconds.  Strings that the code builds by            *)
(* concatenation are tuples of their parts; the empty string is <<>>.      *)
(* An optional value (a Go pointer that may be nil, a file that may be     *)
(* missing) is a sequence of length 0 or 1.                                *)
(***************************************************************************)
EXTENDS Integers, Sequences, FiniteSets, TLC

(***************************************************************************)
(* Bounds of the model.                                                    *)
(***************************************************************************)
\* the clock runs from 0 to MaxNow
MaxNow == 1
\* number of RoundTrip calls made over a whole behaviour
MaxCalls == 2
\* number of goroutines that call RoundTrip on the client of one process
NumCallers == 2
\* number of records of the largest backing store
MaxRecords == 5
\* the largest limit of a selector
MaxLimit == 3
\* number of characters of the longest filter token
MaxTokenLen == 3

Callers == 1..NumCallers

(***************************************************************************)
(* Program constants.                                                      *)
(***************************************************************************)
\* auth.go:55  time.Now().Add(5*time.Minute), in seconds
SafetyMargin == 300
\* auth.go:94  http.StatusOK
StatusOK == 200

(***************************************************************************)
(* Optional values.                                                        *)
(***************************************************************************)
None == <<>>
Some(x) == <<x>>
IsSome(o) == Len(o) = 1
Get(o) == o[1]

\* the empty string
Empty == <<>>
\* a nil error
NoErr == <<>>

(***************************************************************************)
(* The environment: configuration profiles, the token endpoint, the API.   *)
(***************************************************************************)
\* config.yaml: the top-level (default) profile, the profile "work", and
\* four profiles that each lack one of the required fields.
\* The default profile has no org_id, the profile "work" has one.
Profiles == {"default", "work", "noclient", "noteam", "nokey", "nopath"}

ConfigFile ==
    [p \in Profiles |->
        CASE p = "default" ->
               [ClientID |-> "cidA", TeamID |-> "teamA", KeyID |-> "keyA",
                OrgID |-> Empty, PrivateKeyPath |-> "a.pem"]
          [] p = "work" ->
               [ClientID |-> "cidB", TeamID |-> "teamB", KeyID |-> "keyB",
                OrgID |-> <<"9">>, PrivateKeyPath |-> "b.pem"]
          [] p = "noclient" ->
               [ClientID |-> "", TeamID |-> "teamC", KeyID |-> "keyC",
                OrgID |-> <<"9">>, PrivateKeyPath |-> "c.pem"]
          [] p = "noteam" ->
               [ClientID |-> "cidC", TeamID |-> "", KeyID |-> "keyC",
                OrgID |-> Empty, PrivateKeyPath |-> "c.pem"]
          [] p = "nokey" ->
               [ClientID |-> "cidC", TeamID |-> "teamC", KeyID |-> "",
                OrgID |-> <<"9">>, PrivateKeyPath |-> "c.pem"]
          [] p = "nopath" ->
               [ClientID |-> "cidC", TeamID |-> "teamC", KeyID |-> "keyC",
                OrgID |-> Empty, PrivateKeyPath |-> ""]]

\* values of the --org-id flag
OrgFlags == {Empty, <<"5">>}

\* what the file at cfg.PrivateKeyPath is: a loadable key, a file that holds
\* no parseable key, or no file at all
KeyFiles == {"ok", "unparseable", "missing"}

\* expires_in values the token endpoint answers with, around the margin
ExpiresInValues == {SafetyMargin, SafetyMargin + 1, SafetyMargin + 2}

\* The answers of the token endpoint to one POST.
TokenResponses ==
    {[kind |-> "neterr"], [kind |-> "readerr"]}
    \cup {[kind |-> "http", status |-> 400, body |-> b] :
             b \in {"error_json", "garbage"}}
    \cup {[kind |-> "http", status |-> StatusOK, body |-> "garbage"]}
    \cup {[kind |-> "http", status |-> StatusOK, body |-> "token_json",
           expires_in |-> e] : e \in ExpiresInValues}

\* strconv.FormatInt(n, 10): the decimal digits of n
Digit(d) ==
    CASE d = 0 -> "0" [] d = 1 -> "1" [] d = 2 -> "2" [] d = 3 -> "3"
      [] d = 4 -> "4" [] d = 5 -> "5" [] d = 6 -> "6" [] d = 7 -> "7"
      [] d = 8 -> "8" [] d = 9 -> "9"

RECURSIVE FormatNat(_)
FormatNat(n) ==
    IF n < 10 THEN <<Digit(n)>> ELSE FormatNat(n \div 10) \o <<Digit(n % 10)>>

FormatInt(n) == IF n < 0 THEN <<"-">> \o FormatNat(-n) ELSE FormatNat(n)

\* An access token is opaque to the client.  The endpoint issues its n-th
\* token to the client id whose assertion it was given.
AccessTok(cid, n) == <<"at-", cid, "-">> \o FormatInt(n)

\* the client id an access token was issued to
IssuedTo(tok) == tok[2]

(***************************************************************************)
(* time.Time: the wall clock reading, and whether the value carries a      *)
(* monotonic reading (values made by time.Now() do, parsed values do not). *)
(***************************************************************************)
TimeNow(t) == [wall |-> t, mono |-> TRUE]
TimeAdd(tm, d) == [wall |-> tm.wall + d, mono |-> tm.mono]
\* t.Before(u): one clock drives both readings in the model
TimeBefore(t, u) == t.wall < u.wall
\* Time.MarshalJSON: RFC 3339 text of the wall clock reading
TimeMarshal(tm) == <<"rfc3339", tm.wall>>
\* Time.UnmarshalJSON
TimeUnmarshal(txt) == [wall |-> txt[2], mono |-> FALSE]

(***************************************************************************)
(* The cache file: auth.go cachePath, loadCachedToken, saveCachedToken.    *)
(***************************************************************************)
\* config.ConfigDir(): $HOME/.asa-cli, whatever the profile is
ConfigDir(p) == "~/.asa-cli"

\* cachePath(): filepath.Join(config.ConfigDir(), "token_cache.json")
cachePath(p) == <<ConfigDir(p), "token_cache.json">>

\* all the paths a cache file can be written to
CachePaths == {cachePath(p) : p \in Profiles}

\* json.MarshalIndent(token, "", "  ")
MarshalTokenCache(tok) ==
    [kind |-> "json",
     access_token |-> tok.AccessToken,
     token_type |-> tok.TokenType,
     expires_at |-> TimeMarshal(tok.ExpiresAt)]

\* loadCachedToken(): nil when the file is missing or does not parse
loadCachedToken(files, p) ==
    LET f == files[cachePath(p)]
    IN  IF ~IsSome(f) THEN None
        ELSE IF Get(f).kind # "json" THEN None
        ELSE Some([AccessToken |-> Get(f).access_token,
                   TokenType |-> Get(f).token_type,
                   ExpiresAt |-> TimeUnmarshal(Get(f).expires_at)])

\* variant of saveCachedToken: nothing is written
SaveSkipped(files, p, tok) == files

\* auth.go:185-192  saveCachedToken(token): the whole file is rewritten

saveCachedToken(files, p, tok) ==
    [files EXCEPT ![cachePath(p)] = Some(MarshalTokenCache(tok))]

(***************************************************************************)
(* State.                                                                  *)
(***************************************************************************)
VARIABLES
    now,          \* the clock, in seconds
    fs,           \* the files at the cache paths: None, or Some(content)
    cfgProfile,   \* config.cfgProfile of the running process
    globalOrgID,  \* the --org-id flag
    verbose,      \* the --verbose flag
    keyFile,      \* what the file at cfg.PrivateKeyPath is
    cfg,          \* the configuration the process loaded
    ctor,         \* the constructor the process called: "newAPIClient",
                  \* "newAPIClientNoOrg", or "" before any process ran
    client,       \* "none", "resolving", "ready" or "failed"
    ctorErr,      \* the error the constructor returned
    orgID,        \* Transport.OrgID of the client's transport
    tpToken,      \* TokenProvider.token: None (nil) or Some(record)
    mu,           \* TokenProvider.mu: 0 when free, else the holder
    pc,           \* where each caller is
    rt,           \* the locals of each caller's RoundTrip / GetToken call
    out,          \* the lines written to standard output by the process
    calls,        \* RoundTrip calls started so far
    issued,       \* tokens issued by the token endpoint so far
    tp,           \* counts of the exchanges of the running provider
    last,         \* the counts and errors of the RoundTrip call that returned last
    filters,      \* parseFilters: the tokens it was called with
    scanned,      \* parseFilters: the tokens its loop has gone through
    conditions,   \* parseFilters: the Conditions appended so far
    store,        \* the records of the provider that match the selector
    given,        \* FindAll: the selector it was called with
    selector,     \* PaginatedFetcher: the selector it was called with
    envelope,     \* PaginatedFetcher: the page envelope received last
    offset,       \* PaginatedFetcher: the offset of the next find request
    results,      \* PaginatedFetcher: the records fetched so far
    requests,     \* the selectors of the find requests sent so far
    fetcherPc,    \* PaginatedFetcher: "idle", "send", "wait" or "done"
    underReported \* some page reported a total below the number of records

\* the state of the request pipeline
pipelineVars ==
    <<now, fs, cfgProfile, globalOrgID, verbose, keyFile, cfg, ctor,
      client, ctorErr, orgID, tpToken, mu, pc, rt, out, calls, issued, tp,
      last>>

\* the state of one parseFilters call
dslVars == <<filters, scanned, conditions>>

\* the state of one PaginatedFetcher call and of the provider it asks
pagerVars ==
    <<store, given, selector, envelope, offset, results, requests, fetcherPc,
      underReported>>

\* what the steps of the request pipeline leave alone
apart == <<dslVars, pagerVars>>

vars == <<pipelineVars, apart>>

(***************************************************************************)
(* http.Header of the requests, with the keys in canonical form.           *)
(***************************************************************************)
HeaderKeys == {"Accept", "Authorization", "X-Ap-Context"}

\* textproto.CanonicalMIMEHeaderKey
CanonicalMIMEHeaderKey(k) == IF k = "X-AP-Context" THEN "X-Ap-Context" ELSE k

\* Header.Set(k, v)
HeaderSet(h, k, v) == [h EXCEPT ![CanonicalMIMEHeaderKey(k)] = Some(v)]

NoHeaders == [k \in HeaderKeys |-> None]

\* the request the callers of RoundTrip build: root.go:153-157
NewRequest == HeaderSet(NoHeaders, "Accept", <<"application/json">>)

\* the url of a request, by what it is for
RequestURL(purpose) ==
    IF purpose = "acl" THEN <<"https://api.searchads.apple.com/api/v5/acls">>
    ELSE <<"https://api.searchads.apple.com/api/v5/campaigns">>

(***************************************************************************)
(* The locals of one RoundTrip call and of the GetToken call it makes.     *)
(***************************************************************************)
NoCall ==
    [purpose |-> "", torg |-> Empty, hadRecord |-> FALSE,
     found |-> "", gtCalls |-> 0, exch |-> 0, posts |-> 0,
     gtTok |-> Empty, gtErr |-> NoErr,
     base |-> 0, hdr |-> NoHeaders, rerr |-> NoErr, resp |-> None]

NewCall(purpose, torg) == [NoCall EXCEPT !.purpose = purpose, !.torg = torg]

NoCounts ==
    [exch |-> 0, failed |-> 0, renew |-> 0, reads |-> 0, cold |-> FALSE]

(***************************************************************************)
(* TokenProvider: auth.go:45-119.                                          *)
(***************************************************************************)
\* variants of Usable: a margin one second too long, and a comparison that
\* lets the boundary through
UsableLongerMargin(tok, t) ==
    TimeBefore(TimeAdd(TimeNow(t), SafetyMargin + 1), tok.ExpiresAt)

UsableAtBoundary(tok, t) ==
    ~TimeBefore(tok.ExpiresAt, TimeAdd(TimeNow(t), SafetyMargin))

\* auth.go:55  time.Now().Add(5*time.Minute).Before(tp.token.ExpiresAt)
Usable(tok, t) ==
    TimeBefore(TimeAdd(TimeNow(t), SafetyMargin), tok.ExpiresAt)

\* variant of MuFree: Lock() never waits
MuIgnored(m) == TRUE

\* auth.go:46  tp.mu.Lock() goes through when the mutex is free
MuFree(m) == m = 0

\* variant of Unlock: the caller returns with the mutex still held
UnlockForgotten(holder) == holder

\* auth.go:47  defer tp.mu.Unlock(): the mutex its holder had is free when
\* GetToken returns
Unlock(holder) == 0

\* variant of ReadsCache: the cache file is read on every call
ReadsCacheAlways(tok) == TRUE

\* auth.go:50  if tp.token == nil
ReadsCache(tok) == ~IsSome(tok)

\* auth.go:49-52  the record GetToken looks at
LoadIfNil(tok, files, p) ==
    IF ReadsCache(tok) THEN loadCachedToken(files, p) ELSE tok

\* auth.go:142-167  the error of loadPrivateKey, by what the key file is
loadPrivateKey(k) ==
    CASE k = "ok" -> NoErr
      [] k = "missing" -> <<"reading private key file: ", "ENOENT">>
      [] k = "unparseable" ->
            <<"unable to parse private key (tried PKCS#8 and SEC1 formats)">>

\* auth.go:71-74  the error exchangeToken returns before it posts anything
generateClientSecret(k) ==
    IF loadPrivateKey(k) = NoErr THEN NoErr
    ELSE <<"generating client secret: ">> \o loadPrivateKey(k)

\* auth.go:83-112  the error exchangeToken returns for an answer
ExchangeError(resp) ==
    IF resp.kind = "neterr" THEN <<"token exchange request failed: ", "net">>
    ELSE IF resp.kind = "readerr" THEN <<"reading token response: ", "read">>
    ELSE IF resp.status # StatusOK
         THEN IF resp.body = "error_json"
              THEN <<"token exchange failed (HTTP ", "400", "): ", "invalid_client">>
              ELSE <<"token exchange failed (HTTP ", "400", ")">>
    ELSE IF resp.body # "token_json" THEN <<"parsing token response: ", "json">>
    ELSE NoErr

\* auth.go:114-118  the record exchangeToken returns for a good answer
ExchangedRecord(resp, tok, t) ==
    [AccessToken |-> tok,
     TokenType |-> "Bearer",
     ExpiresAt |-> TimeAdd(TimeNow(t), resp.expires_in)]

\* variant of KeptOnFailure: the record is dropped
ClearedOnFailure(tok) == None

\* auth.go:60-63  GetToken returns the error of exchangeToken and leaves
\* tp.token as it is
KeptOnFailure(tok) == tok

\* variant of StoreToken: the exchanged record is not kept
StoreTokenDropped(old, new) == old

\* auth.go:65  tp.token = token
StoreToken(old, new) == Some(new)

\* a record this provider exchanged itself (not one it loaded)
OwnRecord(tok) == IsSome(tok) /\ Get(tok).ExpiresAt.mono

(***************************************************************************)
(* Transport.RoundTrip, transport.go:16-57, and the GetToken call it       *)
(* makes.                                                                  *)
(***************************************************************************)
\* transport.go:19  fmt.Errorf("auth: %w", err)
WrapAuth(err) == <<"auth: ">> \o err

\* variant of TokenFailed: the error of GetToken is dropped
TokenErrorDropped(err) == FALSE

\* transport.go:18  whether RoundTrip gives up after GetToken
TokenFailed(err) == err # NoErr

\* variant of SetAuthHeaders: the org header is set whatever OrgID is
SetAuthHeadersAlwaysOrg(h, tok, torg) ==
    HeaderSet(HeaderSet(h, "Authorization", <<"Bearer ">> \o tok),
              "X-AP-Context", <<"orgId=">> \o torg)

\* transport.go:22-26  the headers of the clone handed to the base transport
SetAuthHeaders(h, tok, torg) ==
    LET h1 == HeaderSet(h, "Authorization", <<"Bearer ">> \o tok)
    IN  IF torg # Empty
        THEN HeaderSet(h1, "X-AP-Context", <<"orgId=">> \o torg)
        ELSE h1

\* transport.go:35-44  the line printed for one header of the request
TraceHeader(k, v) ==
    CASE k = "Authorization" -> <<"> ", k, ": Bearer ***">>
      [] k = "X-Ap-Context" -> <<"> ", k, ": orgId=***">>
      [] OTHER -> <<"> ", k, ": ">> \o v

\* transport.go:33-45  the lines printed before the request is sent
TraceRequest(purpose, h) ==
    {<<"> ", "GET", " ">> \o RequestURL(purpose)}
    \cup {TraceHeader(k, Get(h[k])) : k \in {x \in HeaderKeys : IsSome(h[x])}}

\* transport.go:52-54  the line printed after the response came
TraceResponse(resp) == {<<"< ", resp.status, " ", "HTTP/1.1">>}

\* models.UserACL, the entries of the /acls answer
Acme == [OrgName |-> <<"Acme">>, OrgID |-> 42]
Beta == [OrgName |-> <<"Beta">>, OrgID |-> 7]

\* the answers of the API to an /acls request
AclResponses ==
    {[kind |-> "err"]}
    \cup {[kind |-> "http", status |-> st, body |-> b] :
             st \in {"200 OK", "403 Forbidden"},
             b \in {None, Some(<<>>), Some(<<Acme>>), Some(<<Acme, Beta>>)}}

\* the answers of the API to a resource request
ResourceResponses ==
    {[kind |-> "err"]}
    \cup {[kind |-> "http", status |-> st, body |-> None] :
             st \in {"200 OK", "500 Internal Server Error"}}

BaseResponses(purpose) ==
    IF purpose = "acl" THEN AclResponses ELSE ResourceResponses

\* variant of PostForm: the request is sent a second time
PostFormRetried(loc) == [loc EXCEPT !.posts = @ + 2]

\* auth.go:83  http.PostForm(tokenURL, data): one request is sent
PostForm(loc) == [loc EXCEPT !.posts = @ + 1]

\* RoundTrip returns to its caller with the locals loc: the goroutine keeps
\* what resolveOrgID reads (the error, the response), the rest is gone
RoundTripReturn(c, loc) ==
    /\ last' = [loc EXCEPT
                  !.hdr = NoHeaders, !.resp = None, !.hadRecord = FALSE,
                  !.gtTok = IF loc.gtErr # NoErr THEN loc.gtTok ELSE Empty]
    /\ pc' = [pc EXCEPT ![c] = "idle"]
    /\ rt' = [rt EXCEPT ![c] =
                IF loc.purpose = "acl"
                THEN [NoCall EXCEPT !.purpose = "acl", !.rerr = loc.rerr,
                                    !.resp = loc.resp]
                ELSE NoCall]

\* transport.go:17-47  RoundTrip once GetToken returned (tok, err): give up
\* on the error, else clone the request, set the headers, trace them and
\* call the base transport
RoundTripSend(c, loc, tok, err) ==
    LET l1 == [loc EXCEPT !.gtTok = tok, !.gtErr = err, !.hadRecord = FALSE]
        h == SetAuthHeaders(NewRequest, tok, loc.torg)
    IN  IF TokenFailed(err)
        THEN /\ RoundTripReturn(c, [l1 EXCEPT !.rerr = WrapAuth(err)])
             /\ UNCHANGED out
        ELSE /\ rt' = [rt EXCEPT ![c] = [l1 EXCEPT !.hdr = h, !.base = @ + 1]]
             /\ pc' = [pc EXCEPT ![c] = "rt_base"]
             /\ UNCHANGED last
             /\ out' = IF verbose
                       THEN out \cup TraceRequest(loc.purpose, h)
                       ELSE out

\* auth.go:46-60 and 70-83  GetToken gets the lock, loads the cache when
\* there is no record and returns the record's token when it is usable;
\* else it calls exchangeToken, which fails on the key or posts to the
\* token endpoint and waits for the answer, the lock held
GetToken(c) ==
    /\ UNCHANGED apart
    /\ pc[c] = "gt_lock"
    /\ MuFree(mu)
    /\ LET rec == LoadIfNil(tpToken, fs, cfgProfile)
           kerr == generateClientSecret(keyFile)
           loc == [rt[c] EXCEPT
                     !.gtCalls = @ + 1,
                     !.hadRecord = IsSome(tpToken),
                     !.found = IF ~IsSome(rec) THEN "none"
                               ELSE IF now + 300 < Get(rec).ExpiresAt.wall
                                    THEN "usable" ELSE "stale"]
           seen == [tp EXCEPT
                      !.reads = @ + IF ReadsCache(tpToken) THEN 1 ELSE 0]
           counted == [seen EXCEPT
                         !.exch = @ + 1,
                         !.renew = @ + IF OwnRecord(tpToken) THEN 1 ELSE 0]
       IN  /\ tpToken' =
                 IF (IsSome(rec) /\ Usable(Get(rec), now)) \/ kerr = NoErr
                 THEN rec
                 ELSE KeptOnFailure(rec)
           /\ IF IsSome(rec) /\ Usable(Get(rec), now)
              THEN /\ RoundTripSend(c, loc, Get(rec).AccessToken, NoErr)
                   /\ mu' = Unlock(c)
                   /\ tp' = seen
              ELSE IF kerr # NoErr
              THEN /\ RoundTripSend(c, [loc EXCEPT !.exch = @ + 1], Empty, kerr)
                   /\ mu' = Unlock(c)
                   /\ tp' = [counted EXCEPT !.failed = @ + 1]
              ELSE /\ rt' = [rt EXCEPT ![c] = PostForm([loc EXCEPT !.exch = @ + 1])]
                   /\ pc' = [pc EXCEPT ![c] = "gt_post"]
                   /\ mu' = c
                   /\ tp' = counted
                   /\ UNCHANGED <<out, last>>
    /\ UNCHANGED <<now, fs, cfgProfile, globalOrgID, verbose, keyFile, cfg,
                   ctor, client, ctorErr, orgID, calls, issued>>

\* auth.go:83-118 and 61-67  the answer to the POST arrives: on an error
\* GetToken returns it, else it stores the record, saves it and returns
\* its token; the deferred Unlock runs and RoundTrip goes on
GetTokenExchanged(c, resp) ==
    /\ UNCHANGED apart
    /\ pc[c] = "gt_post"
    /\ mu' = Unlock(c)
    /\ IF ExchangeError(resp) # NoErr
       THEN /\ RoundTripSend(c, rt[c], Empty, ExchangeError(resp))
            /\ tp' = [tp EXCEPT !.failed = @ + 1]
            /\ tpToken' = KeptOnFailure(tpToken)
            /\ UNCHANGED <<fs, issued>>
       ELSE LET rec == ExchangedRecord(
                           resp, AccessTok(cfg.ClientID, issued + 1), now)
            IN  /\ tpToken' = StoreToken(tpToken, rec)
                /\ fs' = saveCachedToken(fs, cfgProfile, rec)
                /\ issued' = issued + 1
                /\ RoundTripSend(c, rt[c], rec.AccessToken, NoErr)
                /\ UNCHANGED tp
    /\ UNCHANGED <<now, cfgProfile, globalOrgID, verbose, keyFile, cfg,
                   ctor, client, ctorErr, orgID, calls>>

\* transport.go:47-56  the base transport returns
RoundTripDone(c, resp) ==
    /\ UNCHANGED apart
    /\ pc[c] = "rt_base"
    /\ resp \in BaseResponses(rt[c].purpose)
    /\ IF resp.kind = "err"
       THEN /\ RoundTripReturn(c, [rt[c] EXCEPT !.rerr = <<"transport: ", "net">>])
            /\ UNCHANGED out
       ELSE /\ RoundTripReturn(c, [rt[c] EXCEPT !.resp = Some(resp)])
            /\ out' = IF verbose THEN out \cup TraceResponse(resp) ELSE out
    /\ UNCHANGED <<now, fs, cfgProfile, globalOrgID, verbose, keyFile, cfg,
                   ctor, client, ctorErr, orgID, tpToken, mu, calls, issued, tp>>

(***************************************************************************)
(* Client construction: root.go:71-112 and 143-193.                        *)
(***************************************************************************)
\* config.Load(): the configuration of the profile
Load(p) == ConfigFile[p]

\* strings.Join(names, sep)
RECURSIVE Join(_, _)
Join(names, sep) ==
    IF Len(names) = 0 THEN <<>>
    ELSE IF Len(names) = 1 THEN names
    ELSE <<Head(names), sep>> \o Join(Tail(names), sep)

\* auth.go:195-207  the names of the required fields that are empty
MissingFields(c) ==
    (IF c.ClientID = "" THEN <<"client_id">> ELSE <<>>)
    \o (IF c.TeamID = "" THEN <<"team_id">> ELSE <<>>)
    \o (IF c.KeyID = "" THEN <<"key_id">> ELSE <<>>)
    \o (IF c.PrivateKeyPath = "" THEN <<"private_key_path">> ELSE <<>>)

\* variant of ValidateConfig: the key id is not looked at
ValidateConfigNoKeyID(c, k) ==
    IF c.ClientID = "" \/ c.TeamID = "" \/ c.PrivateKeyPath = ""
    THEN <<"missing required config: ">> \o Join(MissingFields(c), ", ")
            \o <<"Run 'asa-cli configure' to set up credentials">>
    ELSE IF k = "missing" THEN <<"private key file not found: ", c.PrivateKeyPath>>
    ELSE NoErr

\* auth.go:194-218  the error of ValidateConfig
ValidateConfig(c, k) ==
    IF Len(MissingFields(c)) > 0
    THEN <<"missing required config: ">> \o Join(MissingFields(c), ", ")
            \o <<"Run 'asa-cli configure' to set up credentials">>
    ELSE IF k = "missing" THEN <<"private key file not found: ", c.PrivateKeyPath>>
    ELSE NoErr

\* root.go:81-85  flag > config
ConfiguredOrgID(c, flag) == IF flag # Empty THEN flag ELSE c.OrgID

\* whether the disk holds a record that is usable at time t
UsableOnDisk(files, p, t) ==
    /\ IsSome(loadCachedToken(files, p))
    /\ t + 300 < Get(loadCachedToken(files, p)).ExpiresAt.wall

\* A process starts when the process before it is over and calls are left to
\* make.  A construction that failed left nothing behind (no file, no
\* record), so what can follow it is what can follow the state before it, and
\* is explored from there.
ProcessCanStart ==
    /\ \A c \in Callers : pc[c] = "idle"
    /\ client \notin {"resolving", "failed"}
    /\ calls < MaxCalls

\* root.go:71-102  a process starts: SetProfile, Load, ValidateConfig, a new
\* TokenProvider, and either the configured org id or the /acls request of
\* resolveOrgID, made through a transport without org id
newAPIClient(p, flag, v, k) ==
    /\ UNCHANGED apart
    /\ ProcessCanStart
    /\ ctor' = "newAPIClient"
    /\ cfgProfile' = p
    /\ globalOrgID' = flag
    /\ verbose' = v
    /\ keyFile' = k
    /\ cfg' = Load(p)
    /\ tpToken' = None
    /\ mu' = 0
    /\ out' = {}
    /\ tp' = [NoCounts EXCEPT !.cold = ~UsableOnDisk(fs, p, now)]
    /\ IF ValidateConfig(Load(p), k) # NoErr
       THEN /\ client' = "failed"
            /\ ctorErr' = ValidateConfig(Load(p), k)
            /\ orgID' = Empty
            /\ rt' = [c \in Callers |-> NoCall]
            /\ UNCHANGED <<pc, calls>>
       ELSE IF ConfiguredOrgID(Load(p), flag) # Empty
       THEN /\ client' = "ready"
            /\ ctorErr' = NoErr
            /\ orgID' = ConfiguredOrgID(Load(p), flag)
            /\ rt' = [c \in Callers |-> NoCall]
            /\ UNCHANGED <<pc, calls>>
       ELSE /\ client' = "resolving"
            /\ ctorErr' = NoErr
            /\ orgID' = Empty
            /\ rt' = [c \in Callers |->
                        IF c = 1 THEN NewCall("acl", Empty) ELSE NoCall]
            /\ pc' = [pc EXCEPT ![1] = "gt_lock"]
            /\ calls' = calls + 1
    /\ last' = NoCall
    /\ UNCHANGED <<now, fs, issued>>

\* root.go:116-140  a process starts with the constructor of the commands
\* that need no org id: SetProfile, Load, ValidateConfig, a new
\* TokenProvider and a transport without org id
newAPIClientNoOrg(p, flag, v, k) ==
    /\ UNCHANGED apart
    /\ ProcessCanStart
    /\ ctor' = "newAPIClientNoOrg"
    /\ cfgProfile' = p
    /\ globalOrgID' = flag
    /\ verbose' = v
    /\ keyFile' = k
    /\ cfg' = Load(p)
    /\ tpToken' = None
    /\ mu' = 0
    /\ out' = {}
    /\ tp' = [NoCounts EXCEPT !.cold = ~UsableOnDisk(fs, p, now)]
    /\ ctorErr' = ValidateConfig(Load(p), k)
    /\ client' = IF ValidateConfig(Load(p), k) # NoErr THEN "failed" ELSE "ready"
    /\ orgID' = Empty
    /\ rt' = [c \in Callers |-> NoCall]
    /\ last' = NoCall
    /\ UNCHANGED <<now, fs, issued, pc, calls>>

\* variant of resolveOrgID: of several organizations the first is taken
resolveOrgIDFirstEntry(r) ==
    IF r.rerr # NoErr THEN [org |-> Empty, err |-> <<"fetching orgs: ">> \o r.rerr]
    ELSE IF ~IsSome(Get(r.resp).body)
    THEN [org |-> Empty, err |-> <<"parsing org response: ", "json">>]
    ELSE LET data == Get(Get(r.resp).body)
         IN  IF Len(data) = 0
             THEN [org |-> Empty,
                   err |-> <<"no organizations found for this account">>]
             ELSE [org |-> FormatInt(data[1].OrgID), err |-> NoErr]

\* root.go:159-192  resolveOrgID after its request returned
resolveOrgID(r) ==
    IF r.rerr # NoErr THEN [org |-> Empty, err |-> <<"fetching orgs: ">> \o r.rerr]
    ELSE IF ~IsSome(Get(r.resp).body)
    THEN [org |-> Empty, err |-> <<"parsing org response: ", "json">>]
    ELSE LET data == Get(Get(r.resp).body)
         IN  IF Len(data) = 0
             THEN [org |-> Empty,
                   err |-> <<"no organizations found for this account">>]
             ELSE IF Len(data) = 1
             THEN [org |-> FormatInt(data[1].OrgID), err |-> NoErr]
             ELSE [org |-> Empty,
                   err |-> <<"multiple organizations found. Use --org-id flag or set org_id in config:">>]

\* root.go:182-184  what resolveOrgID prints when it selected an org
TraceAutoSelected(r) ==
    LET data == Get(Get(r.resp).body)
    IN  {<<"Auto-selected org: ">> \o data[1].OrgName \o <<" (ID: ">>
            \o FormatInt(data[1].OrgID) \o <<")">>}

\* root.go:90-102  newAPIClient goes on with the resolved org id, or fails
newAPIClientResolved ==
    /\ UNCHANGED apart
    /\ client = "resolving"
    /\ pc[1] = "idle"
    /\ LET res == resolveOrgID(rt[1])
       IN  IF res.err # NoErr
           THEN /\ client' = "failed"
                /\ ctorErr' = res.err
                /\ UNCHANGED <<orgID, out>>
           ELSE /\ client' = "ready"
                /\ ctorErr' = NoErr
                /\ orgID' = res.org
                /\ out' = IF verbose THEN out \cup TraceAutoSelected(rt[1])
                          ELSE out
    /\ rt' = [rt EXCEPT ![1] = NoCall]
    /\ UNCHANGED <<now, fs, cfgProfile, globalOrgID, verbose, keyFile, cfg,
                   ctor, tpToken, mu, pc, calls, issued, tp, last>>

\* a caller sends a resource request through the client's transport
StartRoundTrip(c) ==
    /\ UNCHANGED apart
    /\ pc[c] = "idle"
    /\ client = "ready"
    /\ calls < MaxCalls
    /\ calls' = calls + 1
    /\ rt' = [rt EXCEPT ![c] = NewCall("resource", orgID)]
    /\ pc' = [pc EXCEPT ![c] = "gt_lock"]
    /\ UNCHANGED <<now, fs, cfgProfile, globalOrgID, verbose, keyFile, cfg,
                   ctor, client, ctorErr, orgID, tpToken, mu, out, issued, tp, last>>

\* time passes
Tick ==
    /\ UNCHANGED apart
    /\ now < MaxNow
    /\ now' = now + 1
    /\ UNCHANGED <<fs, cfgProfile, globalOrgID, verbose, keyFile, cfg, ctor,
                   client, ctorErr, orgID, tpToken, mu, pc, rt, out, calls,
                   issued, tp, last>>

(***************************************************************************)
(* The specification.                                                      *)
(***************************************************************************)
\* no process has run yet
PipelineInit ==
    /\ now = 0
    /\ cfgProfile = "default"
    /\ globalOrgID = Empty
    /\ verbose = FALSE
    /\ keyFile = "ok"
    /\ cfg = Load("default")
    /\ ctor = ""
    /\ client = "none"
    /\ ctorErr = NoErr
    /\ orgID = Empty
    /\ tpToken = None
    /\ mu = 0
    /\ pc = [c \in Callers |-> "idle"]
    /\ rt = [c \in Callers |-> NoCall]
    /\ out = {}
    /\ calls = 0
    /\ issued = 0
    /\ tp = NoCounts
    /\ last = NoCall

\* no parseFilters call is under way
DslInit ==
    /\ filters = <<>>
    /\ scanned = 0
    /\ conditions = <<>>

\* models.Selector: conditions, ordering, pagination
NewSelector(conds, order, off, limit) ==
    [Conditions |-> conds, OrderBy |-> order,
     Pagination |-> [Offset |-> off, Limit |-> limit]]

\* the page envelope: the records and the total of the pagination detail,
\* None when the detail is absent
NoEnvelope == [records |-> <<>>, total |-> None]

\* no PaginatedFetcher call is under way
PagerInit ==
    /\ store = <<>>
    /\ given = NewSelector(<<>>, <<>>, 0, 0)
    /\ selector = NewSelector(<<>>, <<>>, 0, 0)
    /\ envelope = NoEnvelope
    /\ offset = 0
    /\ results = <<>>
    /\ requests = <<>>
    /\ fetcherPc = "idle"
    /\ underReported = FALSE

\* the cache file is missing or holds something that is not a record
Init ==
    /\ PipelineInit
    /\ fs \in [CachePaths -> {None, Some([kind |-> "garbage"])}]
    /\ DslInit
    /\ PagerInit

Next ==
    \/ \E p \in Profiles, flag \in OrgFlags, v \in BOOLEAN, k \in KeyFiles :
          newAPIClient(p, flag, v, k)
    \/ \E p \in Profiles, v \in BOOLEAN, k \in KeyFiles :
          newAPIClientNoOrg(p, Empty, v, k)
    \/ newAPIClientResolved
    \/ \E c \in Callers : StartRoundTrip(c)
    \/ \E c \in Callers : GetToken(c)
    \/ \E c \in Callers, resp \in TokenResponses : GetTokenExchanged(c, resp)
    \/ \E c \in Callers, resp \in AclResponses \cup ResourceResponses :
          RoundTripDone(c, resp)
    \/ Tick

Spec == Init /\ [][Next]_vars

(***************************************************************************)
(* The filter parser: root.go:196-224.  A token is the sequence of its     *)
(* characters; positions count from 0 as in Go.                            *)
(***************************************************************************)
\* the characters the tokens are made of: a letter, the comma and the
\* characters of the operators
Chars == {"a", ",", "=", "~", "@", ">", "<", "!"}

\* the tokens of at most MaxTokenLen characters
Tokens == UNION {[1..n -> Chars] : n \in 0..MaxTokenLen}

\* root.go:200  the operators, in the order the loop tries them
Operators ==
    << <<">", "=">>, <<"<", "=">>, <<"!", "~">>,
       <<"=">>, <<"~">>, <<"@">>, <<">">>, <<"<">> >>

\* sub occurs in s at position i
OccursAt(s, sub, i) ==
    /\ i >= 0
    /\ i + Len(sub) <= Len(s)
    /\ SubSeq(s, i + 1, i + Len(sub)) = sub

\* strings.Index(s, sub): the position of the first occurrence, else -1
Index(s, sub) ==
    IF \E i \in 0..Len(s) : OccursAt(s, sub, i)
    THEN CHOOSE i \in 0..Len(s) :
            /\ OccursAt(s, sub, i)
            /\ \A j \in 0..(i - 1) : ~OccursAt(s, sub, j)
    ELSE -1

\* strings.Split(s, sep) for a separator of one character
RECURSIVE Split(_, _)
Split(s, sep) ==
    IF Index(s, <<sep>>) < 0 THEN <<s>>
    ELSE <<SubSeq(s, 1, Index(s, <<sep>>))>>
            \o Split(SubSeq(s, Index(s, <<sep>>) + 2, Len(s)), sep)

\* models.ParseFilterOperator(op): the API operator of a shorthand
ParseFilterOperator(op) == [shorthand |-> op]

\* variant of FieldRequired: a match at position 0 is taken
FieldOptional(idx) == idx >= 0

\* root.go:202  if idx > 0
FieldRequired(idx) == idx > 0

\* variant of ValuesOf: the value is split on commas whatever the operator
ValuesAlwaysSplit(op, value) == Split(value, ",")

\* root.go:207-212  the values of a Condition
ValuesOf(op, value) ==
    IF op = <<"@">> THEN Split(value, ",") ELSE <<value>>

\* root.go:203-218  the Condition made when op was found at idx in f
NewCondition(f, op, idx) ==
    [Field |-> SubSeq(f, 1, idx),
     Operator |-> ParseFilterOperator(op),
     Values |-> ValuesOf(op, SubSeq(f, idx + Len(op) + 1, Len(f)))]

\* root.go:200-221  the inner loop from the k-th operator on: the Condition
\* of the first operator whose first occurrence has a field before it, and
\* nothing when the operators run out
RECURSIVE TryOperators(_, _)
TryOperators(f, k) ==
    IF k > Len(Operators) THEN <<>>
    ELSE IF FieldRequired(Index(f, Operators[k]))
         THEN <<NewCondition(f, Operators[k], Index(f, Operators[k]))>>
         ELSE TryOperators(f, k + 1)

\* root.go:198-222  one round of the outer loop
parseFiltersLoop ==
    /\ scanned < Len(filters)
    /\ conditions' = conditions \o TryOperators(filters[scanned + 1], 1)
    /\ scanned' = scanned + 1
    /\ UNCHANGED <<filters, pipelineVars, pagerVars>>

\* a token as in the README, status=ENABLED, and a token without operator
Plain == <<"s", "=", "E">>
Bare == <<"s">>

\* the tokens that come before and after the token under study
Around == {<<>>, <<Plain>>, <<Bare>>}

\* parseFilters is called with a token, other tokens before and after it
FilterInit ==
    /\ PipelineInit
    /\ fs = [p \in CachePaths |-> None]
    /\ \E before \in Around, t \in Tokens, after \in Around :
          filters = before \o <<t>> \o after
    /\ scanned = 0
    /\ conditions = <<>>
    /\ PagerInit

FilterNext == parseFiltersLoop

FilterSpec == FilterInit /\ [][FilterNext]_vars

(***************************************************************************)
(* The auto-paginator: services/campaigns.go:37-39 hands the selector to   *)
(* api.PaginatedFetcher, which asks the find endpoint page after page.     *)
(***************************************************************************)
\* the backing stores: the records 1..n, in their order
Stores == {[i \in 1..n |-> i] : n \in 0..MaxRecords}

\* the selectors of the commands: with or without a condition and an
\* ordering, the offset 0 and a limit
Selectors ==
    {NewSelector(conds, order, 0, limit) :
        conds \in {<<>>, <<NewCondition(Plain, <<"=">>, 1)>>},
        order \in {<<>>, <<[Field |-> "name", SortOrder |-> "ASCENDING"]>>},
        limit \in 1..MaxLimit}

\* the total a page reports for a store of n records: absent, too small,
\* right or too large
ReportedTotals(n) == {None} \cup {Some(t) : t \in 0..(n + 1)}

\* variant of FindAllSelector: the conditions are left behind
FindAllNoConditions(sel) == [sel EXCEPT !.Conditions = <<>>]

\* campaigns.go:38  the selector FindAll hands to PaginatedFetcher
FindAllSelector(sel) == sel

\* the selector of a page request: the offset is set, the rest is kept
PageSelector(sel, off) == [sel EXCEPT !.Pagination.Offset = off]

\* the provider's answer to a find request: the records from the offset
\* on, at most limit of them
FindPage(records, sel) ==
    LET first == sel.Pagination.Offset + 1
        last1 == sel.Pagination.Offset + sel.Pagination.Limit
    IN  SubSeq(records, first,
               IF last1 < Len(records) THEN last1 ELSE Len(records))

\* variant of StopAfter: a short page does not end the loop
StopOnTotalOnly(count, limit, fetched, total) ==
    IsSome(total) /\ fetched >= Get(total)

\* the loop ends after a page of fewer records than the limit, or when
\* the records fetched reach the total reported
StopAfter(count, limit, fetched, total) ==
    \/ count < limit
    \/ IsSome(total) /\ fetched >= Get(total)

\* campaigns.go:37-39  FindAll calls PaginatedFetcher with its selector
FindAll(records, sel) ==
    /\ fetcherPc = "idle"
    /\ store' = records
    /\ given' = sel
    /\ selector' = FindAllSelector(sel)
    /\ offset' = FindAllSelector(sel).Pagination.Offset
    /\ results' = <<>>
    /\ requests' = <<>>
    /\ fetcherPc' = "send"
    /\ UNCHANGED <<envelope, underReported, dslVars, pipelineVars>>

\* PaginatedFetcher posts the selector with the current offset
FindRequest ==
    /\ fetcherPc = "send"
    /\ requests' = Append(requests, PageSelector(selector, offset))
    /\ fetcherPc' = "wait"
    /\ UNCHANGED <<store, given, selector, envelope, offset, results,
                   underReported, dslVars, pipelineVars>>

\* the page arrives: its records are added, and the loop ends or goes on
\* with the offset advanced by the limit
FindResponse(total) ==
    /\ fetcherPc = "wait"
    /\ total \in ReportedTotals(Len(store))
    /\ LET page == FindPage(store, requests[Len(requests)])
           limit == selector.Pagination.Limit
       IN  /\ envelope' = [records |-> page, total |-> total]
           /\ results' = results \o page
           /\ underReported' =
                 (underReported \/ (IsSome(total) /\ Get(total) < Len(store)))
           /\ IF StopAfter(Len(page), limit, Len(results) + Len(page), total)
              THEN /\ fetcherPc' = "done"
                   /\ UNCHANGED offset
              ELSE /\ fetcherPc' = "send"
                   /\ offset' = offset + limit
    /\ UNCHANGED <<store, given, selector, requests, dslVars, pipelineVars>>

PagerSpecInit ==
    /\ PipelineInit
    /\ fs = [p \in CachePaths |-> None]
    /\ DslInit
    /\ PagerInit

PagerNext ==
    \/ \E records \in Stores, sel \in Selectors : FindAll(records, sel)
    \/ FindRequest
    \/ \E total \in {None} \cup {Some(t) : t \in 0..(MaxRecords + 2)} :
          FindResponse(total)

PagerSpec == PagerSpecInit /\ [][PagerNext]_vars

(***************************************************************************)
(* Properties of the token provider.                                       *)
(***************************************************************************)
\* the record GetToken looks at once it holds the lock
FoundRecord == LoadIfNil(tpToken, fs, cfgProfile)

\* caller c makes the step of GetToken that looks at the record
Looks(c) == pc[c] = "gt_lock" /\ pc'[c] # "gt_lock"

\* C1, as stated: for any number of GetToken calls on one provider that
\* starts with no usable record in memory or on disk, one token exchange is
\* made in total, whatever the token endpoint answers
C1_OneExchangeWhateverTheAnswer ==
    (tp.cold /\ keyFile = "ok") => tp.exch <= 1

\* C1, amended: on a provider that starts with no usable record, the
\* exchanges made are at most one, plus one for every exchange that failed,
\* plus one for every call that found the provider's own exchanged record no
\* longer usable; and when one exchange was made and none failed, every
\* caller that got a token got the token of the record in memory
C1_OneExchangePerMiss ==
    tp.cold =>
        /\ tp.exch <= 1 + tp.failed + tp.renew
        /\ (tp.exch = 1 /\ tp.failed = 0) =>
              \A c \in Callers :
                  pc[c] = "rt_base" =>
                      /\ IsSome(tpToken)
                      /\ rt[c].gtTok = Get(tpToken).AccessToken

\* a provider that started cold made one exchange, and a second caller got
\* the exchanged record without an exchange of its own
C1_Witness ==
    /\ tp.cold /\ tp.exch = 1 /\ tp.failed = 0
    /\ \E c, d \in Callers :
          /\ c # d
          /\ pc[c] = "rt_base" /\ rt[c].posts = 1
          /\ pc[d] = "rt_base" /\ rt[d].posts = 0
          /\ rt[d].gtTok = rt[c].gtTok

\* C2: at most one token exchange is in flight, its caller holds the lock,
\* and while it is in flight no other caller makes the step of GetToken that
\* reads the record
C2_MutualExclusion ==
    /\ [](/\ Cardinality({c \in Callers : pc[c] = "gt_post"}) <= 1
          /\ \A c \in Callers : pc[c] = "gt_post" => mu = c)
    /\ [][\A c, d \in Callers :
            (c # d /\ pc[c] = "gt_post" /\ pc[d] = "gt_lock")
                => (pc'[d] = "gt_lock" /\ rt'[d] = rt[d])]_vars

\* an exchange is in flight while another caller waits for the lock
C2_Witness ==
    \E c, d \in Callers : pc[c] = "gt_post" /\ pc[d] = "gt_lock"

\* C3: when the record GetToken looks at has now + 5 minutes strictly before
\* its expires_at, GetToken returns that record's token, posts nothing and
\* leaves the cache file alone
C3_UsableRecordIsServed ==
    [][\A c \in Callers :
          (/\ Looks(c)
           /\ IsSome(FoundRecord)
           /\ now + 300 < Get(FoundRecord).ExpiresAt.wall)
          => /\ pc'[c] = "rt_base"
             /\ rt'[c].gtErr = NoErr
             /\ rt'[c].gtTok = Get(FoundRecord).AccessToken
             /\ rt'[c].posts = 0
             /\ rt'[c].exch = 0
             /\ fs' = fs
             /\ issued' = issued]_vars

\* a caller got the token of a usable record the provider held in memory
C3_Witness ==
    \E c \in Callers :
        /\ pc[c] = "rt_base"
        /\ rt[c].found = "usable"
        /\ rt[c].posts = 0
        /\ OwnRecord(tpToken)

\* C4: when the record GetToken looks at has expires_at <= now + 5 minutes,
\* the call makes one exchange, and the token it returns, if any, is not
\* the stale record's
C4_StaleRecordIsExchanged ==
    [][\A c \in Callers :
          /\ (/\ Looks(c)
              /\ IsSome(FoundRecord)
              /\ Get(FoundRecord).ExpiresAt.wall <= now + 300)
             => \/ /\ pc'[c] = "gt_post"
                   /\ rt'[c].exch = 1
                   /\ rt'[c].posts = 1
                \/ /\ pc'[c] = "idle"
                   /\ last'.exch = 1
                   /\ last'.gtErr # NoErr
          /\ (pc[c] = "gt_post" /\ rt[c].found = "stale" /\ pc'[c] # "gt_post")
             => \/ /\ pc'[c] = "rt_base"
                   /\ rt'[c].exch = 1
                   /\ rt'[c].posts = 1
                   /\ rt'[c].gtTok # Get(tpToken).AccessToken
                \/ /\ pc'[c] = "idle"
                   /\ last'.exch = 1
                   /\ last'.posts = 1
                   /\ last'.gtErr # NoErr]_vars

\* a caller found a record whose expires_at is exactly now + 5 minutes and
\* its exchange is in flight
C4_Witness ==
    \E c \in Callers :
        /\ pc[c] = "gt_post"
        /\ rt[c].found = "stale"
        /\ IsSome(tpToken)
        /\ Get(tpToken).ExpiresAt.wall = now + 300

\* C5, as stated: a token GetToken returns under a profile was issued to the
\* client id of that profile, never to the client id of another profile
C5_TokenOfOwnProfile ==
    \A c \in Callers :
        pc[c] = "rt_base" => IssuedTo(rt[c].gtTok) = ConfigFile[cfgProfile].ClientID

(***************************************************************************)
(* Properties of the transport.                                            *)
(***************************************************************************)
\* C6: when GetToken fails, RoundTrip never calls the base transport and
\* returns the token error wrapped; a request that is with the base
\* transport has a token that GetToken returned without error
C6_NoTokenNoRequest ==
    /\ last.gtErr # NoErr =>
          /\ last.base = 0
          /\ last.rerr = <<"auth: ">> \o last.gtErr
    /\ \A c \in Callers :
          /\ rt[c].gtErr # NoErr => rt[c].base = 0 /\ pc[c] # "rt_base"
          /\ pc[c] = "rt_base" => rt[c].gtErr = NoErr /\ rt[c].gtTok # Empty

\* a RoundTrip call returned the wrapped error of a failed exchange and the
\* base transport was not called
C6_Witness ==
    /\ last.posts = 1
    /\ last.gtErr # NoErr
    /\ last.base = 0
    /\ last.rerr = <<"auth: ">> \o last.gtErr

\* C7: a request handed to the base transport has Authorization set to
\* "Bearer " and the token GetToken returned, and has X-AP-Context set, to
\* "orgId=" and the transport's OrgID, exactly when that OrgID is not empty
C7_HeadersOfSentRequest ==
    \A c \in Callers :
        pc[c] = "rt_base" =>
            /\ rt[c].hdr["Authorization"] = Some(<<"Bearer ">> \o rt[c].gtTok)
            /\ rt[c].torg = (IF rt[c].purpose = "acl" THEN Empty ELSE orgID)
            /\ rt[c].torg # Empty =>
                  rt[c].hdr["X-Ap-Context"] = Some(<<"orgId=">> \o rt[c].torg)
            /\ rt[c].torg = Empty => rt[c].hdr["X-Ap-Context"] = None

\* a resource request is with the base transport, carrying the org id that
\* the /acls request, sent without org header, resolved
C7_Witness ==
    /\ orgID = FormatInt(42)
    /\ \E c \in Callers :
          /\ pc[c] = "rt_base"
          /\ rt[c].purpose = "resource"
          /\ rt[c].hdr["X-Ap-Context"] = Some(<<"orgId=", "4", "2">>)

\* s occurs in the line
Contains(line, s) ==
    \E i \in 1..(Len(line) - Len(s) + 1) : SubSeq(line, i, i + Len(s) - 1) = s

\* C8, as stated: with --verbose nothing written to standard output
\* contains the bearer token or the organization id
C8_NoSecretInOutput ==
    verbose =>
        \A line \in out :
            /\ orgID # Empty => ~Contains(line, orgID)
            /\ IsSome(tpToken) => ~Contains(line, Get(tpToken).AccessToken)

\* C9: a GetToken call posts at most once to the token endpoint, a RoundTrip
\* call calls GetToken once and the base transport at most once, and a call
\* whose exchange or whose request failed is over, its error returned
C9_NoRetry ==
    /\ \A c \in Callers :
          /\ rt[c].gtCalls <= 1 /\ rt[c].exch <= 1
          /\ rt[c].posts <= 1 /\ rt[c].base <= 1
          /\ pc[c] \in {"gt_post", "rt_base"} => rt[c].gtCalls = 1
          /\ pc[c] # "idle" => (rt[c].gtErr = NoErr /\ rt[c].rerr = NoErr)
    /\ last.gtCalls <= 1 /\ last.exch <= 1
    /\ last.posts <= 1 /\ last.base <= 1
    /\ last.gtErr # NoErr => last.rerr # NoErr /\ last.base = 0

\* a RoundTrip call whose request failed in the base transport returned the
\* error, after one call of the base transport
C9_Witness ==
    /\ last.gtErr = NoErr
    /\ last.rerr # NoErr
    /\ last.base = 1

\* the cache file of the running profile
CacheFile == fs[cachePath(cfgProfile)]

AclList(r) ==
    IF r.rerr # NoErr THEN None
    ELSE IF ~IsSome(r.resp) THEN None
    ELSE Get(r.resp).body

\* C11: the client's org id is the --org-id flag when it is not empty, else
\* the configured org id when it is not empty, else the result of the /acls
\* query; the query is made only when both are empty, and it gives an org id
\* only when the list has exactly one organization, whose id it is: with
\* no list, an empty list or a list of two or more the construction fails
\* and no org id is selected
C11_OrgIDResolution ==
    /\ [](/\ (ctor = "newAPIClient" /\ client = "ready" /\ globalOrgID # Empty)
                => orgID = globalOrgID
          /\ (/\ ctor = "newAPIClient" /\ client = "ready"
              /\ globalOrgID = Empty /\ cfg.OrgID # Empty)
                => orgID = cfg.OrgID
          /\ (client = "resolving" \/ \E c \in Callers : rt[c].purpose = "acl")
                => (globalOrgID = Empty /\ cfg.OrgID = Empty)
          /\ client = "failed" => orgID = Empty)
    /\ [][(client = "resolving" /\ client' # "resolving") =>
            IF IsSome(AclList(rt[1])) /\ Len(Get(AclList(rt[1]))) = 1
            THEN /\ client' = "ready"
                 /\ orgID' = FormatInt(Get(AclList(rt[1]))[1].OrgID)
            ELSE /\ client' = "failed"
                 /\ orgID' = Empty]_vars

\* a client whose flag and configuration name no org id is ready with the id
\* of the one organization the /acls query returned
C11_Witness ==
    /\ ctor = "newAPIClient"
    /\ client = "ready"
    /\ globalOrgID = Empty
    /\ cfg.OrgID = Empty
    /\ orgID = FormatInt(Acme.OrgID)

\* one of the four required fields of the configuration is empty
MissingRequired(c) ==
    c.ClientID = "" \/ c.TeamID = "" \/ c.KeyID = "" \/ c.PrivateKeyPath = ""

\* the constructor returned the error of a missing required field
PreconditionError ==
    /\ Len(ctorErr) > 0
    /\ ctorErr[1] = "missing required config: "

\* C12: when client id, team id, key id or private key path is empty, both
\* constructors fail with the error of the missing fields and the process
\* makes no network call: no caller is in a RoundTrip, none returned, no
\* exchange was made; and a configuration whose four required fields are
\* set never gets that error, whatever its org id is
C12_PreconditionBeforeNetwork ==
    /\ (ctor # "" /\ MissingRequired(cfg)) =>
          /\ client = "failed"
          /\ PreconditionError
          /\ \A c \in Callers : pc[c] = "idle" /\ rt[c] = NoCall
          /\ last = NoCall
          /\ tp.exch = 0
          /\ tpToken = None
    /\ (ctor # "" /\ ~MissingRequired(cfg)) => ~PreconditionError

\* the constructor of the commands without org id failed on an empty key id
\* although the cache file held a usable token
C12_Witness ==
    /\ ctor = "newAPIClientNoOrg"
    /\ cfg.KeyID = ""
    /\ client = "failed"
    /\ PreconditionError
    /\ UsableOnDisk(fs, cfgProfile, now)

\* C13, as stated: while the configured private key cannot be loaded, no
\* request is with the token endpoint or with the API, and none was sent by
\* a call that returned, also when the cache file held a usable token
C13_NoRequestWithoutKey ==
    (ctor # "" /\ loadPrivateKey(keyFile) # NoErr) =>
        /\ \A c \in Callers : pc[c] \notin {"gt_post", "rt_base"}
        /\ last.posts = 0
        /\ last.base = 0

(***************************************************************************)
(* Properties of the filter parser.                                        *)
(***************************************************************************)
\* the round of the loop that handles the token f
Scans(f) == scanned' = scanned + 1 /\ f = filters[scanned + 1]

\* the Conditions the round appended
Appended == SubSeq(conditions', Len(conditions) + 1, Len(conditions'))

\* the values of a Condition put together again, a comma between them
RECURSIVE Joined(_)
Joined(values) ==
    IF Len(values) = 1 THEN values[1]
    ELSE values[1] \o <<",">> \o Joined(Tail(values))

\* the positions greater than 0 of f at which an operator occurs
OperatorPositions(f) ==
    {i \in 1..(Len(f) - 1) :
        \E k \in 1..Len(Operators) : OccursAt(f, Operators[k], i)}

\* the leftmost of them
LeftmostPosition(f) ==
    CHOOSE i \in OperatorPositions(f) : \A j \in OperatorPositions(f) : i <= j

\* the operator that occurs at position i of f, the longer one when two do
OperatorAt(f, i) ==
    LET there == {k \in 1..Len(Operators) : OccursAt(f, Operators[k], i)}
    IN  Operators[CHOOSE k \in there :
                    \A j \in there : Len(Operators[k]) >= Len(Operators[j])]

\* f begins with a field: no operator occurs at its position 0
BeginsWithField(f) ==
    \A k \in 1..Len(Operators) : ~OccursAt(f, Operators[k], 0)

\* C14, as stated, for the tokens that begin with a field: a token is split
\* at the leftmost position greater than 0 at which any operator occurs, the
\* multi-character operator taken before a single-character one at that
\* position; the field is the text before the operator and the value the
\* text after it
C14_SplitAtLeftmostOperator ==
    [][\A f \in {filters[i] : i \in 1..Len(filters)} :
          (Scans(f) /\ BeginsWithField(f) /\ OperatorPositions(f) # {}) =>
              LET at == LeftmostPosition(f)
                  op == OperatorAt(f, at)
              IN  /\ Len(Appended) = 1
                  /\ Appended[1].Field = SubSeq(f, 1, at)
                  /\ Appended[1].Operator = ParseFilterOperator(op)
                  /\ Joined(Appended[1].Values)
                        = SubSeq(f, at + Len(op) + 1, Len(f))]_vars

\* the text v holds no comma
NoComma(v) == \A n \in 1..Len(v) : v[n] # ","

\* C15: the values of a Condition are more than one only when its operator
\* is @, and then they are the text after the @ split on commas; with any
\* other operator the Condition has one value, the whole text after the
\* operator, commas included, also when that text is empty
C15_OnlyInSplitsValues ==
    [][\A f \in {filters[i] : i \in 1..Len(filters)} :
          Scans(f) =>
              \A i \in 1..Len(Appended) :
                  LET c == Appended[i]
                  IN  IF c.Operator = ParseFilterOperator(<<"@">>)
                      THEN /\ Len(c.Values) >= 1
                           /\ \A j \in 1..Len(c.Values) : NoComma(c.Values[j])
                           /\ f = c.Field \o <<"@">> \o Joined(c.Values)
                      ELSE /\ Len(c.Values) = 1
                           /\ \E k \in 1..Len(Operators) :
                                 /\ c.Operator = ParseFilterOperator(Operators[k])
                                 /\ f = c.Field \o Operators[k] \o c.Values[1]]_vars

\* the token a=, gave a Condition whose one value is the comma
C15_Witness ==
    /\ scanned = Len(filters)
    /\ \E i \in 1..Len(conditions) :
          /\ conditions[i].Field = <<"a">>
          /\ conditions[i].Operator = ParseFilterOperator(<<"=">>)
          /\ conditions[i].Values = << <<",">> >>

FirstOccurrenceAfterField(f) ==
    \E k \in 1..Len(Operators), i \in 1..(Len(f) - 1) :
        /\ OccursAt(f, Operators[k], i)
        /\ \A j \in 0..(i - 1) : ~OccursAt(f, Operators[k], j)

C17_PagesCoverTheStore ==
    fetcherPc # "idle" =>
        /\ \A i \in 1..Len(requests) :
              /\ requests[i].Conditions = given.Conditions
              /\ requests[i].OrderBy = given.OrderBy
              /\ requests[i].Pagination.Limit = given.Pagination.Limit
              /\ requests[i].Pagination.Offset
                    = (i - 1) * given.Pagination.Limit
        /\ Len(results) <= Len(store)
        /\ \A i \in 1..Len(results) : results[i] = store[i]
        /\ (fetcherPc = "done" /\ ~underReported) => results = store

\* a store of 5 records was fetched with limit 2 and a condition in three
\* requests, at the offsets 0, 2 and 4
C17_Witness ==
    /\ fetcherPc = "done"
    /\ Len(store) = 5
    /\ given.Pagination.Limit = 2
    /\ Len(given.Conditions) = 1
    /\ Len(requests) = 3
    /\ requests[3].Pagination.Offset = 4
    /\ results = store

\* C18: the fetcher sends a further request only after a page that held as
\* many records as the limit and left the records fetched below the total
\* reported, so none after a short or empty page whatever the total, and
\* none once the total is reached; the requests it sends for a store of n
\* records are at most n / limit + 1
C18_StopsAfterShortPage ==
    LET limit == selector.Pagination.Limit
    IN  /\ (fetcherPc \in {"send", "wait"} /\ Len(requests) > 1) =>
              Len(store) >= (Len(requests) - 1) * limit
        /\ (fetcherPc = "send" /\ Len(requests) > 0) =>
              /\ Len(envelope.records) = limit
              /\ IsSome(envelope.total) => Len(results) < Get(envelope.total)
        /\ fetcherPc = "done" =>
              \/ Len(envelope.records) < limit
              \/ IsSome(envelope.total) /\ Len(results) >= Get(envelope.total)
        /\ fetcherPc # "idle" => Len(requests) <= Len(store) \div limit + 1

\* the fetcher is done after one request whose page was short, although the
\* total reported says that more records remain
C18_Witness ==
    /\ fetcherPc = "done"
    /\ Len(requests) = 1
    /\ Len(envelope.records) > 0
    /\ Len(envelope.records) < selector.Pagination.Limit
    /\ IsSome(envelope.total)
    /\ Get(envelope.total) > Len(results)

(***************************************************************************)
(* Properties of the token provider: the cache file and failed exchanges.  *)
(***************************************************************************)
\* C19, as stated: one TokenProvider reads the cache file at most once,
\* whatever the first GetToken call found and whatever became of its
\* exchange
C19_CacheReadOnce == tp.reads <= 1

\* C19, amended: a GetToken call reads the cache file only when the provider
\* holds no record in memory; the reads of one provider are at most one
\* plus one for every exchange that failed, and one at most when no exchange
\* failed
C19_CacheReadWhileNoRecord ==
    /\ [](tp.reads <= 1 + tp.failed)
    /\ [][tp'.reads > tp.reads => tpToken = None]_vars
    /\ [][\A c \in Callers :
            (Looks(c) /\ tpToken = None) => tp'.reads = tp.reads + 1]_vars
    /\ [][(IsSome(tpToken) /\ IsSome(tpToken')) => tp'.reads = tp.reads]_vars

\* two callers of one provider got a token and the cache file was read by
\* the first of them only
C19_Witness ==
    /\ tp.reads = 1
    /\ IsSome(tpToken)
    /\ \A c \in Callers : pc[c] = "rt_base"

\* the GetToken call of c fails in this step on the private key, before
\* anything is posted
FailsOnKey(c) == Looks(c) /\ pc'[c] = "idle"

\* the GetToken call of c fails in this step on the answer to its POST
FailsOnAnswer(c) == pc[c] = "gt_post" /\ pc'[c] = "idle"

\* C20, as stated: a GetToken call whose exchange fails leaves the record
\* in memory and the cache file as they were before the call and returns an
\* empty token with the error
C20_FailedExchangeChangesNothing ==
    [][\A c \in Callers :
          /\ FailsOnKey(c) =>
                /\ tpToken' = tpToken
                /\ fs' = fs
                /\ last'.gtTok = Empty /\ last'.gtErr # NoErr
          /\ FailsOnAnswer(c) =>
                /\ tpToken' = (IF rt[c].hadRecord THEN tpToken ELSE None)
                /\ fs' = fs
                /\ last'.gtTok = Empty /\ last'.gtErr # NoErr]_vars

\* C20, amended: a GetToken call whose exchange fails leaves the cache file
\* as it was and returns an empty token with the error; the record in
\* memory is the one from before the call, or, when there was none, the
\* record the call loaded from the cache file
C20_FailedExchangeKeepsLoadedRecord ==
    [][\A c \in Callers :
          /\ FailsOnKey(c) =>
                /\ tpToken' = (IF IsSome(tpToken) THEN tpToken
                               ELSE loadCachedToken(fs, cfgProfile))
                /\ fs' = fs
                /\ last'.gtTok = Empty /\ last'.gtErr # NoErr
          /\ FailsOnAnswer(c) =>
                /\ tpToken' = (IF rt[c].hadRecord THEN tpToken
                               ELSE loadCachedToken(fs, cfgProfile))
                /\ fs' = fs
                /\ last'.gtTok = Empty /\ last'.gtErr # NoErr]_vars

\* a provider without record loaded a stale record from the cache file, its
\* exchange failed on the answer, and the loaded record is in memory
C20_Witness ==
    /\ last.posts = 1
    /\ last.gtErr # NoErr
    /\ tp.reads = 1 /\ tp.exch = 1 /\ tp.failed = 1
    /\ IsSome(tpToken)
    /\ tpToken = loadCachedToken(fs, cfgProfile)

(***************************************************************************)
(* Properties of the client construction: the status of the /acls answer.  *)
(***************************************************************************)
\* C21, as stated: when the /acls request of resolveOrgID was answered with
\* a status other than success ("200 OK" is the success status among the
\* answers of the API), the construction fails, no org id is selected, and
\* the error is neither "no organizations found" nor "multiple
\* organizations found": the answer is not classified by the number of
\* entries of its body
C21_ClassifiedOnlyOnSuccess ==
    [][(/\ client = "resolving" /\ client' # "resolving"
        /\ rt[1].rerr = NoErr
        /\ IsSome(rt[1].resp)
        /\ Get(rt[1].resp).status # "200 OK")
          => /\ client' = "failed"
             /\ orgID' = Empty
             /\ ctorErr' # <<"no organizations found for this account">>
             /\ ctorErr' # <<"multiple organizations found. Use --org-id flag or set org_id in config:">>]_vars

(***************************************************************************)
(* Termination of GetToken.  The token endpoint answers every POST (a      *)
(* response or an error), and a goroutine blocked in Lock() gets the mutex *)
(* once it has been free often enough: sync.Mutex hands the mutex to a     *)
(* waiter that has been starved.                                           *)
(***************************************************************************)
Fairness ==
    \A c \in Callers :
        /\ SF_vars(GetToken(c))
        /\ WF_vars(\E resp \in TokenResponses : GetTokenExchanged(c, resp))

\* the processes of the default profile without tracing: neither the
\* profile nor the tracing has a part in GetToken
LiveNext ==
    \/ \E flag \in OrgFlags, k \in KeyFiles :
          newAPIClient("default", flag, FALSE, k)
    \/ \E k \in KeyFiles : newAPIClientNoOrg("default", Empty, FALSE, k)
    \/ newAPIClientResolved
    \/ \E c \in Callers : StartRoundTrip(c)
    \/ \E c \in Callers : GetToken(c)
    \/ \E c \in Callers, resp \in TokenResponses : GetTokenExchanged(c, resp)
    \/ \E c \in Callers, resp \in AclResponses \cup ResourceResponses :
          RoundTripDone(c, resp)
    \/ Tick

LiveSpec == Init /\ [][LiveNext]_vars /\ Fairness

\* C22: every caller that is inside GetToken, waiting for the lock or
\* holding it with its exchange in flight, gets to a state where its
\* GetToken call has returned and it does not hold the lock, whatever the
\* answers to the exchanges are: no waiting caller is blocked forever, also
\* when the exchange of the holder fails
C22_GetTokenReturns ==
    \A c \in Callers :
        (pc[c] \in {"gt_lock", "gt_post"})
            ~> (pc[c] \notin {"gt_lock", "gt_post"} /\ mu # c)

\* a call whose exchange was posted and failed has returned, and now another
\* caller of the same provider holds the lock with its own exchange in flight
C22_Witness ==
    /\ last.posts = 1
    /\ last.gtErr # NoErr
    /\ tp.failed = 1
    /\ tp.exch = 2
    /\ \E c \in Callers : pc[c] = "gt_post" /\ mu = c
====
